---- MODULE Spec2Model ----
(***************************************************************************)
(* Model of trello_weekly_report_to_telegram.py: the weekly window, the    *)
(* report builder, the chunker (textwrap.wrap as the script calls it) and  *)
(* the run of main().                                                      *)
(*                                                                         *)
(* Time is counted in whole hours since an epoch that is a Monday 00:00    *)
(* UTC.  Text is a sequence of one-character strings.                      *)
(***************************************************************************)
EXTENDS Integers, Sequences, FiniteSets, TLC

VARIABLES
    pc,        \* position of the run / of the function under study
    zone,      \* the configured time zone (TZ_NAME), as its offset rule
    now,       \* the instant of the run (UTC hours since the epoch)
    start,     \* line 30: aware datetime [wall, off]
    end,       \* line 31
    SINCE,     \* line 36: UTC instant sent to the board API
    BEFORE,    \* line 37
    actions,   \* what get_actions returned / the argument of build_report
    outcome,   \* "none", "ok", or the exception that ended the function/run
    title,     \* build_report's first result
    lines,     \* build_report's local list `lines`
    body,      \* build_report's second result
    text,      \* argument of textwrap.wrap
    chunks,    \* result of textwrap.wrap
    queue,     \* chunks of the current tg_send_html call still to post
    sent,      \* chunks the messaging endpoint accepted, in order
    log,       \* outbound operations of the run, in order
    printed    \* whether print("OK") ran

vars == <<pc, zone, now, start, end, SINCE, BEFORE, actions, outcome, title,
          lines, body, text, chunks, queue, sent, log, printed>>

\* The value None / JSON null.
None == [t |-> "none"]

(***************************************************************************)
(* Lines 27-37: the window.                                                *)
(***************************************************************************)
HoursPerDay == 24
DaysPerWeek == 7
HoursPerWeek == HoursPerDay * DaysPerWeek

\* Latest instant of a run the model considers, in hours after FirstNow.
MaxNow == 340
\* Runs start no earlier than two weeks after the epoch (keeps start >= 0).
FirstNow == 2 * HoursPerWeek

\* A zone is the rule [before, after, at]: UTC offset `before` for instants
\* earlier than `at`, `after` from `at` on.  Europe/Moscow (the default of
\* line 24) has had one offset since 2014; the other two are a zone entering
\* and a zone leaving daylight-saving time on a Sunday 02:00 local.
Zones ==
    { [name |-> "Europe/Moscow", before |-> 3, after |-> 3, at |-> 0],
      [name |-> "DstBegins", before |-> 0 - 5, after |-> 0 - 4,
       at |-> FirstNow + 6 * HoursPerDay + 7],
      [name |-> "DstEnds", before |-> 0 - 4, after |-> 0 - 5,
       at |-> FirstNow + 6 * HoursPerDay + 6] }

\* utcoffset of zone z at UTC instant u (what pytz resolves in fromutc).
OffsetAt(z, u) == IF u < z.at THEN z.before ELSE z.after

\* datetime.datetime.now(tz), line 28: pytz's fromutc gives the wall clock
\* and a tzinfo frozen at the offset valid at that instant.
NowIn(z, u) == [wall |-> u + OffsetAt(z, u), off |-> OffsetAt(z, u)]

\* datetime.weekday(): Monday is 0.
Weekday(dt) == (dt.wall \div HoursPerDay) % DaysPerWeek

\* dt - timedelta(days=n) on an aware datetime: wall-clock arithmetic, the
\* tzinfo object (and so its offset) is carried over unchanged.
MinusDays(dt, n) == [wall |-> dt.wall - n * HoursPerDay, off |-> dt.off]

\* dt.replace(hour=0, minute=0, second=0, microsecond=0): tzinfo unchanged.
Midnight(dt) == [wall |-> (dt.wall \div HoursPerDay) * HoursPerDay, off |-> dt.off]

\* Line 29.
monday_this_week(dt) == Midnight(MinusDays(dt, Weekday(dt)))

\* Lines 33-34: dt.astimezone(pytz.UTC) subtracts the datetime's own offset.
to_utc_iso(dt) == dt.wall - dt.off

\* The wall clock the zone really shows at UTC instant u.
WallAt(z, u) == u + OffsetAt(z, u)

(***************************************************************************)
(* Characters and strings.                                                 *)
(***************************************************************************)
\* string.whitespace as textwrap uses it (textwrap._whitespace); the
\* vertical tab has no TLA+ escape and is not in any modelled text.
Whitespace == {" ", "\t", "\n", "\r", "\f"}
\* The ASCII letters; with "_" they are the letters ([^\d\W]) of modelled text.
LowerLetters ==
    <<"a", "b", "c", "d", "e", "f", "g", "h", "i", "j", "k", "l", "m", "n",
      "o", "p", "q", "r", "s", "t", "u", "v", "w", "x", "y", "z">>
UpperLetters ==
    <<"A", "B", "C", "D", "E", "F", "G", "H", "I", "J", "K", "L", "M", "N",
      "O", "P", "Q", "R", "S", "T", "U", "V", "W", "X", "Y", "Z">>
Letters ==
    {LowerLetters[i] : i \in 1..Len(LowerLetters)}
        \cup {UpperLetters[i] : i \in 1..Len(UpperLetters)} \cup {"_"}
Digits == {"0", "1", "2", "3", "4", "5", "6", "7", "8", "9"}
\* The punctuation textwrap counts as part of a word: [\w!"'&.,?]
WordPunctExtra == {"!", "\"", "'", "&", ".", ",", "?"}

IsWs(c) == c \in Whitespace
IsLetter(c) == c \in Letters
IsWord(c) == c \in Letters \cup Digits
IsWordPunct(c) == IsWord(c) \/ c \in WordPunctExtra

\* The modelled characters in code-point order: the ASCII control characters
\* of Whitespace and the printable ASCII characters (without the backslash
\* and the backquote, which no modelled text holds).
CharOrder ==
    <<"\t", "\n", "\f", "\r", " ", "!", "\"", "#", "$", "%", "&", "'", "(",
      ")", "*", "+", ",", "-", ".", "/", "0", "1", "2", "3", "4", "5", "6",
      "7", "8", "9", ":", ";", "<", "=", ">", "?", "@", "A", "B", "C", "D",
      "E", "F", "G", "H", "I", "J", "K", "L", "M", "N", "O", "P", "Q", "R",
      "S", "T", "U", "V", "W", "X", "Y", "Z", "[", "]", "^", "_",
      "a", "b", "c", "d", "e", "f", "g", "h", "i", "j", "k", "l", "m",
      "n", "o", "p", "q", "r", "s", "t", "u", "v", "w", "x", "y", "z", "{",
      "|", "}", "~">>
Ord(c) == CHOOSE i \in 1..Len(CharOrder) : CharOrder[i] = c

\* Python's < on str: lexicographic by code point.
RECURSIVE StrLess(_, _)
StrLess(a, b) ==
    IF b = <<>> THEN FALSE
    ELSE IF a = <<>> THEN TRUE
    ELSE IF a[1] = b[1] THEN StrLess(Tail(a), Tail(b))
    ELSE Ord(a[1]) < Ord(b[1])

\* str.lower() on the modelled characters.
LowerChar(c) ==
    IF \E i \in 1..Len(UpperLetters) : UpperLetters[i] = c
    THEN LowerLetters[CHOOSE i \in 1..Len(UpperLetters) : UpperLetters[i] = c]
    ELSE c
Lower(s) == [i \in 1..Len(s) |-> LowerChar(s[i])]

\* ''.join(parts)
RECURSIVE Concat(_)
Concat(parts) == IF parts = <<>> THEN <<>> ELSE Head(parts) \o Concat(Tail(parts))

\* sep.join(parts)
RECURSIVE Join(_, _)
Join(sep, parts) ==
    IF parts = <<>> THEN <<>>
    ELSE IF Len(parts) = 1 THEN parts[1]
    ELSE parts[1] \o sep \o Join(sep, Tail(parts))

\* The non-ASCII characters of lines 89 and 91 are written in ASCII: "#" is
\* the marker U+1F539, "~" the em dash U+2014, "@" the em space U+2003.  The
\* first two are neither word characters nor whitespace; the em space is
\* whitespace for str.strip but not for textwrap.
EmSpace == "@"

\* str.strip(): leading and trailing whitespace removed.
IsStripWs(c) == IsWs(c) \/ c = EmSpace
RECURSIVE LStrip(_)
LStrip(s) == IF s # <<>> /\ IsStripWs(s[1]) THEN LStrip(Tail(s)) ELSE s
RECURSIVE RStrip(_)
RStrip(s) ==
    IF s # <<>> /\ IsStripWs(s[Len(s)]) THEN RStrip(SubSeq(s, 1, Len(s) - 1)) ELSE s
Strip(s) == RStrip(LStrip(s))

(***************************************************************************)
(* Line 99: textwrap.wrap(text, width, replace_whitespace=False,           *)
(* drop_whitespace=False), the other options at their defaults             *)
(* (expand_tabs, tabsize 8, break_long_words, break_on_hyphens).           *)
(***************************************************************************)
\* tabsize, the default the call of line 99 leaves in force.
TabSize == 8

Spaces(n) == [i \in 1..n |-> " "]

\* str.expandtabs(tabsize): a tab becomes the spaces up to the next tab
\* stop; the column restarts after a line break.  s is taken up to its
\* first tab or line break at a time; col is the column s starts in (0
\* after a tab as well: a tab stop is a multiple of the tab size).
RECURSIVE ExpandTabsFrom(_, _)
ExpandTabsFrom(s, col) ==
    LET special == { i \in 1..Len(s) : s[i] \in {"\t", "\n", "\r"} } IN
    IF special = {} THEN s
    ELSE LET k == CHOOSE i \in special : \A j \in special : i <= j
             plain == SubSeq(s, 1, k - 1)
             rest == SubSeq(s, k + 1, Len(s))
         IN  IF s[k] = "\t"
             THEN plain \o Spaces(TabSize - ((col + k - 1) % TabSize))
                        \o ExpandTabsFrom(rest, 0)
             ELSE plain \o <<s[k]>> \o ExpandTabsFrom(rest, 0)
ExpandTabs(s) == ExpandTabsFrom(s, 0)

\* TextWrapper._munge_whitespace with expand_tabs=True (the default) and
\* replace_whitespace=False (line 99).
_munge_whitespace(s) == ExpandTabs(s)

\* The character at index i, or "" outside the string.
At(s, i) == IF i >= 1 /\ i <= Len(s) THEN s[i] ELSE ""

\* First index >= i that holds no hyphen.
RECURSIVE HyphenRunEnd(_, _)
HyphenRunEnd(s, i) == IF At(s, i) = "-" THEN HyphenRunEnd(s, i + 1) ELSE i

\* First index >= i that holds no whitespace.
RECURSIVE WsRunEnd(_, _)
WsRunEnd(s, i) == IF IsWs(At(s, i)) THEN WsRunEnd(s, i + 1) ELSE i

\* wordsep_re, "-{2,}(?=\w)" at index q: at least two hyphens, then a word
\* character.
DashesThenWord(s, q) ==
    /\ At(s, q) = "-" /\ At(s, q + 1) = "-"
    /\ IsWord(At(s, HyphenRunEnd(s, q)))

\* wordsep_re, the hyphenated-word branch with the hyphen at index q.
HyphenBreak(s, q) ==
    /\ At(s, q) = "-"
    /\ \/ IsLetter(At(s, q - 2)) /\ IsLetter(At(s, q - 1))
       \/ IsLetter(At(s, q - 3)) /\ At(s, q - 2) = "-" /\ IsLetter(At(s, q - 1))
    /\ IsLetter(At(s, q + 1))
    /\ \/ IsLetter(At(s, q + 2))
       \/ At(s, q + 2) = "-" /\ IsLetter(At(s, q + 3))

\* wordsep_re, the word branch: the lazy [^ws]+? has matched up to q - 1;
\* the index after the match.
RECURSIVE WordEnd(_, _)
WordEnd(s, q) ==
    IF HyphenBreak(s, q) THEN q + 1
    ELSE IF q > Len(s) \/ IsWs(At(s, q)) THEN q
    ELSE IF IsWordPunct(At(s, q - 1)) /\ DashesThenWord(s, q) THEN q
    ELSE WordEnd(s, q + 1)

\* The index after the wordsep_re match that starts at index p.
ChunkEnd(s, p) ==
    IF IsWs(s[p]) THEN WsRunEnd(s, p)
    ELSE IF IsWordPunct(At(s, p - 1)) /\ DashesThenWord(s, p) THEN HyphenRunEnd(s, p)
    ELSE WordEnd(s, p + 1)

\* TextWrapper._split: wordsep_re.split(text) without the empty pieces.
RECURSIVE SplitFrom(_, _)
SplitFrom(s, p) ==
    IF p > Len(s) THEN <<>>
    ELSE LET e == ChunkEnd(s, p)
         IN  <<SubSeq(s, p, e - 1)>> \o SplitFrom(s, e)
_split(s) == SplitFrom(s, 1)

\* str.rfind("-", 0, stop), 0-based; -1 when absent.
RECURSIVE RFindHyphen(_, _)
RFindHyphen(chunk, stop) ==
    IF stop <= 0 THEN 0 - 1
    ELSE IF At(chunk, stop) = "-" THEN stop - 1
    ELSE RFindHyphen(chunk, stop - 1)

\* TextWrapper._handle_long_word with break_long_words and break_on_hyphens:
\* how many characters of `chunk` go on the current line.
LongWordCut(chunk, cur_len, width) ==
    LET space_left == IF width < 1 THEN 1 ELSE width - cur_len
        hyphen == RFindHyphen(chunk, space_left)
    IN  IF /\ Len(chunk) > space_left
           /\ hyphen > 0
           /\ \E i \in 1..hyphen : chunk[i] # "-"
        THEN hyphen + 1
        ELSE space_left

\* The inner loop of _wrap_chunks: how many leading chunks fit on a line
\* that already holds cur_len characters.
RECURSIVE FitCount(_, _, _)
FitCount(cs, cur_len, width) ==
    IF cs # <<>> /\ cur_len + Len(cs[1]) <= width
    THEN 1 + FitCount(Tail(cs), cur_len + Len(cs[1]), width)
    ELSE 0

\* TextWrapper._wrap_chunks with drop_whitespace=False, no indent and no
\* max_lines: the lines made of the chunks cs.
RECURSIVE _wrap_chunks(_, _)
_wrap_chunks(cs, width) ==
    IF cs = <<>> THEN <<>>
    ELSE LET k == FitCount(cs, 0, width)
             fitted == Concat(SubSeq(cs, 1, k))
             rest == SubSeq(cs, k + 1, Len(cs))
         IN  IF rest # <<>> /\ Len(rest[1]) > width
             THEN LET cut == LongWordCut(rest[1], Len(fitted), width)
                      cur_line == fitted \o SubSeq(rest[1], 1, cut)
                      left == <<SubSeq(rest[1], cut + 1, Len(rest[1]))>> \o Tail(rest)
                  IN  <<cur_line>> \o _wrap_chunks(left, width)
             ELSE <<fitted>> \o _wrap_chunks(rest, width)

\* textwrap.wrap as line 99 calls it.
wrap(s, width) == _wrap_chunks(_split(_munge_whitespace(s)), width)

(***************************************************************************)
(* Python / JSON values: None, str, dict.                                  *)
(***************************************************************************)
Str(chars) == [t |-> "str", v |-> chars]
Dict(f) == [t |-> "dict", v |-> f]
EmptyDict == Dict(<<>>)

\* isinstance(x, dict)
IsDict(x) == x.t = "dict"
\* bool(x)
Truthy(x) ==
    CASE x.t = "none" -> FALSE
      [] x.t = "str" -> x.v # <<>>
      [] x.t = "dict" -> DOMAIN x.v # {}
\* d.get(k, default) on a dict d
Get(d, k, default) == IF k \in DOMAIN d.v THEN d.v[k] ELSE default
\* x or y
Or(x, y) == IF Truthy(x) THEN x ELSE y
\* str(x), as an f-string renders x
Format(x) == IF x.t = "none" THEN <<"N", "o", "n", "e">> ELSE x.v

(***************************************************************************)
(* Lines 39-44: fmt_local.  A timestamp of the board is written "DDThhZ":  *)
(* DD the day since the epoch, hh the hour, Z for UTC (the shape of        *)
(* "2024-01-15T09:00:00.000Z" at the model's granularity); the local time  *)
(* is printed "DD hh" (the shape of "%Y-%m-%d %H:%M").                     *)
(***************************************************************************)
DigitSeq == <<"0", "1", "2", "3", "4", "5", "6", "7", "8", "9">>
DigitVal(c) == (CHOOSE i \in 1..Len(DigitSeq) : DigitSeq[i] = c) - 1
\* "%02d"
TwoDigits(n) == <<DigitSeq[((n \div 10) % 10) + 1], DigitSeq[(n % 10) + 1]>>

\* Whether datetime.fromisoformat accepts the string (after "Z" became
\* "+00:00").
IsIso(chars) ==
    /\ Len(chars) = 6
    /\ chars[1] \in Digits /\ chars[2] \in Digits
    /\ chars[3] = "T"
    /\ chars[4] \in Digits /\ chars[5] \in Digits
    /\ chars[6] = "Z"
    /\ DigitVal(chars[4]) * 10 + DigitVal(chars[5]) < HoursPerDay

\* The UTC instant a valid timestamp denotes.
ParseIso(chars) ==
    (DigitVal(chars[1]) * 10 + DigitVal(chars[2])) * HoursPerDay
        + DigitVal(chars[4]) * 10 + DigitVal(chars[5])

\* strftime("%Y-%m-%d %H:%M") of a wall clock
FormatLocal(wall) ==
    TwoDigits(wall \div HoursPerDay) \o <<" ">> \o TwoDigits(wall % HoursPerDay)

\* fmt_local(iso_str) in zone z: None.replace and a string fromisoformat
\* rejects both raise inside the try, and the argument comes back unchanged.
fmt_local(z, iso_str) ==
    IF iso_str.t = "str" /\ IsIso(iso_str.v)
    THEN Str(FormatLocal(WallAt(z, ParseIso(iso_str.v))))
    ELSE iso_str

(***************************************************************************)
(* Lines 60-95: build_report.                                              *)
(***************************************************************************)
\* Line 74's default card name, "Без названия", transliterated.
Untitled == Str(<<"B", "e", "z", " ", "n", "a", "z", "v", "a", "n", "i", "y", "a">>)
\* Line 76
UrlPrefix ==
    <<"h", "t", "t", "p", "s", ":", "/", "/", "t", "r", "e", "l", "l", "o",
      ".", "c", "o", "m", "/", "c", "/">>
\* Line 80's literal, "Отчёт по выполненным чек-пунктам: ", abbreviated
\* to its last word, which keeps the hyphen, the colon and the space.
TitlePrefix == <<"c", "h", "e", "k", "-", "p", "u", "n", "k", "t", "a", "m", ":", " ">>
\* Line 82's sentence, "За указанную неделю выполненных пунктов не найдено.",
\* abbreviated to its last two words.
NothingFound == <<"n", "e", " ", "n", "a", "i", "d", "e", "n", "o", ".">>

\* strftime("%Y-%m-%d"): the date is printed as the day since the epoch.
FormatDate(dt) == TwoDigits(dt.wall \div HoursPerDay)

\* Line 80
Title(s, e) ==
    TitlePrefix \o FormatDate(s) \o <<" ", "~", " ">> \o FormatDate(MinusDays(e, 1))

\* The state of the loop of lines 64-78: the keys of by_card in insertion
\* order, by_card, card_meta, and the exception that ended the loop if any.
ScanInit == [order |-> <<>>, by_card |-> <<>>, card_meta |-> <<>>, err |-> "none"]

\* Lines 65-78 for one element a of actions.
ScanStep(st, a) ==
    IF ~IsDict(a) THEN st
    ELSE LET data == Get(a, "data", EmptyDict) IN
    IF ~IsDict(data) THEN [st EXCEPT !.err = "AttributeError"]
    ELSE LET ci == Get(data, "checkItem", EmptyDict) IN
    IF ~IsDict(ci) THEN [st EXCEPT !.err = "AttributeError"]
    ELSE IF Get(ci, "state", None) # Str(<<"c", "o", "m", "p", "l", "e", "t", "e">>) THEN st
    ELSE LET item_name == Get(ci, "name", Str(<<>>))
             card == Or(Get(data, "card", EmptyDict), EmptyDict)
         IN
    IF ~IsDict(card) THEN [st EXCEPT !.err = "AttributeError"]
    ELSE LET card_id == Get(card, "id", None)
             card_name == Get(card, "name", Untitled)
             short == Get(card, "shortLink", Str(<<>>))
             card_url == IF Truthy(short) THEN UrlPrefix \o Format(short) ELSE <<>>
             entry == <<Get(a, "date", None), item_name>>
             known == \E i \in 1..Len(st.order) : st.order[i] = card_id
         IN  [order |-> IF known THEN st.order ELSE Append(st.order, card_id),
              by_card |-> IF known
                          THEN [st.by_card EXCEPT ![card_id] = Append(@, entry)]
                          ELSE (card_id :> <<entry>>) @@ st.by_card,
              card_meta |-> (card_id :> <<card_name, card_url>>) @@ st.card_meta,
              err |-> "none"]

\* The loop of lines 64-78; it stops at the first exception.
RECURSIVE Scan(_, _)
Scan(st, as) ==
    IF as = <<>> \/ st.err # "none" THEN st
    ELSE Scan(ScanStep(st, Head(as)), Tail(as))

\* sorted(xs, key=...) for string keys, on the pairs <<key(x), x>>: stable
\* and ascending.  An element goes after every element whose key is not
\* greater.
RECURSIVE InsertSorted(_, _)
InsertSorted(p, sorted) ==
    IF sorted = <<>> THEN <<p>>
    ELSE IF StrLess(p[1], sorted[Len(sorted)][1])
         THEN Append(InsertSorted(p, SubSeq(sorted, 1, Len(sorted) - 1)),
                     sorted[Len(sorted)])
    ELSE Append(sorted, p)
RECURSIVE SortPairs(_)
SortPairs(ps) ==
    IF ps = <<>> THEN <<>>
    ELSE InsertSorted(ps[Len(ps)], SortPairs(SubSeq(ps, 1, Len(ps) - 1)))
Values(ps) == [i \in 1..Len(ps) |-> ps[i][2]]

\* Line 87's key: (card_meta[cid][0] or "").lower()
CardKey(st, cid) == Lower(Or(st.card_meta[cid][1], Str(<<>>)).v)
\* Line 90's key: x[0] or ""; before it, the key without the `or`: the text
\* an absent timestamp is printed as.
ItemKeyAsPrinted(x) == Format(x[1])
ItemKey(x) == Or(x[1], Str(<<>>)).v

\* Line 87
SortedCards(st) ==
    Values(SortPairs([i \in 1..Len(st.order) |->
                        <<CardKey(st, st.order[i]), st.order[i]>>]))
\* Line 90; before it, the list left in arrival order.
ItemsAsArrived(xs) == xs
SortedItems(xs) ==
    Values(SortPairs([i \in 1..Len(xs) |-> <<ItemKey(xs[i]), xs[i]>>]))

\* Line 89
HeaderLine(card_name, card_url) ==
    <<"#", " ", "<", "a", " ", "h", "r", "e", "f", "=", "\"">> \o card_url
        \o <<"\"", ">">> \o Format(card_name) \o <<"<", "/", "a", ">">>
\* Line 91
ItemLine(z, dt_iso, item) ==
    <<EmSpace, "~", " ">> \o Format(fmt_local(z, dt_iso)) \o <<" ", "~", " ">>
        \o Format(item)

RECURSIVE ItemLines(_, _)
ItemLines(z, xs) ==
    IF xs = <<>> THEN <<>>
    ELSE <<ItemLine(z, xs[1][1], xs[1][2])>> \o ItemLines(z, Tail(xs))

\* Lines 88-92 for one card
CardBlock(z, st, cid) ==
    <<HeaderLine(st.card_meta[cid][1], st.card_meta[cid][2])>>
        \o ItemLines(z, SortedItems(st.by_card[cid])) \o << <<>> >>

\* Lines 85-92: the list `lines`
RECURSIVE BlocksOf(_, _, _)
BlocksOf(z, st, cids) ==
    IF cids = <<>> THEN <<>>
    ELSE CardBlock(z, st, cids[1]) \o BlocksOf(z, st, Tail(cids))
Lines(z, st) == BlocksOf(z, st, SortedCards(st))

\* Line 94
Body(ls) == Strip(Join(<<"\n">>, ls))

\* build_report(actions) with the globals tz, start, end: the exception it
\* raises, or "ok" with title, lines and body.
build_report(z, s, e, as) ==
    LET st == Scan(ScanInit, as) IN
    IF st.err # "none"
    THEN [outcome |-> st.err, title |-> <<>>, lines |-> <<>>, body |-> <<>>]
    ELSE IF st.order = <<>>
    THEN [outcome |-> "ok", title |-> Title(s, e), lines |-> <<>>, body |-> NothingFound]
    ELSE [outcome |-> "ok", title |-> Title(s, e), lines |-> Lines(z, st),
          body |-> Body(Lines(z, st))]

(***************************************************************************)
(* Inputs.                                                                 *)
(***************************************************************************)
Complete == Str(<<"c", "o", "m", "p", "l", "e", "t", "e">>)
Incomplete == Str(<<"i", "n", "c", "o", "m", "p", "l", "e", "t", "e">>)

\* Cards: two records of card 1 that differ in name and short link (the
\* card was renamed), and card 2, whose name equals card 1's in lower case.
Card1a == Dict([id |-> Str(<<"1">>), name |-> Str(<<"a">>), shortLink |-> Str(<<"s">>)])
Card1b == Dict([id |-> Str(<<"1">>), name |-> Str(<<"b">>)])
Card2A == Dict([id |-> Str(<<"2">>), name |-> Str(<<"A">>), shortLink |-> Str(<<"s">>)])

\* Timestamps: 09:00 and 22:00 UTC of day 15; one fromisoformat rejects.
T0 == Str(<<"1", "5", "T", "0", "9", "Z">>)
T1 == Str(<<"1", "5", "T", "2", "2", "Z">>)
BadTime == Str(<<"b", "a", "d">>)

ItemX == Str(<<"x">>)
ItemY == Str(<<"y", " ">>)

CheckItem(state, item) == Dict([state |-> state, name |-> item])
\* An updateCheckItemStateOnCard action of the board API.
Event(state, card, date, item) ==
    Dict([date |-> date, data |-> Dict([checkItem |-> CheckItem(state, item), card |-> card])])
\* The same without the "date" field.
EventNoDate(state, card, item) ==
    Dict([data |-> Dict([checkItem |-> CheckItem(state, item), card |-> card])])

\* Well-formed completion events.
CompleteEvents ==
    { Event(Complete, Card1a, d, i) : d \in {T0, T1}, i \in {ItemX, ItemY} }
        \cup { EventNoDate(Complete, Card1a, ItemX) }
        \cup { Event(Complete, c, T0, ItemX) : c \in {Card1b, Card2A} }
        \cup { Event(Complete, Card2A, BadTime, ItemX),
               \* an empty timestamp, no card and no item name
               Dict([date |-> Str(<<>>),
                     data |-> Dict([checkItem |-> Dict([state |-> Complete])])]) }

\* Events that are not completions.
OtherEvents == { Event(Incomplete, Card1a, T0, ItemX) }

\* Entries build_report is to skip: not a record; "data" null; "checkItem"
\* null; "card" not a record.
NotARecord == Str(<<"x">>)
DataNull == Dict([data |-> None])
CheckItemNull == Dict([data |-> Dict([checkItem |-> None])])
CardNotARecord ==
    Dict([date |-> T0,
          data |-> Dict([checkItem |-> CheckItem(Complete, ItemX), card |-> Str(<<"x">>)])])
Malformed == {NotARecord, DataNull, CheckItemNull, CardNotARecord}

Events == CompleteEvents \cup OtherEvents \cup Malformed

\* Longest event list given to build_report.
MaxActions == 3
\* Longest event list the board API returns in a modelled run.
MaxRunActions == 1
\* Longest text given to textwrap.wrap on its own.
MaxLen == 5
\* The chunk width.  Line 99 sets 3500; the model wraps at a width in
\* proportion to its short texts.
Width == 4

SeqsUpTo(S, n) == UNION { [1..k -> S] : k \in 0..n }

\* The characters of the texts wrapped on their own: a letter, a hyphen,
\* a space, a tab, a line break.
Alphabet == {"a", "-", " ", "\t", "\n"}

\* The instant of the run for the runs of build_report and main: Monday
\* 09:00 UTC of the week after the zones' offset change.
RunNow == FirstNow + DaysPerWeek * HoursPerDay + 9

(***************************************************************************)
(* Actions.                                                                *)
(***************************************************************************)
\* Module level, lines 27-37.
ComputeWindow ==
    /\ pc = "import"
    /\ LET m == monday_this_week(NowIn(zone, now))
       IN  /\ start' = MinusDays(m, DaysPerWeek)
           /\ end' = m
           /\ SINCE' = to_utc_iso(MinusDays(m, DaysPerWeek))
           /\ BEFORE' = to_utc_iso(m)
    /\ pc' = "main"
    /\ UNCHANGED <<zone, now, actions, outcome, title, lines, body, text, chunks,
                   queue, sent, log, printed>>

\* Line 109, get_actions returns: lines 56-58 without an exception.
GetActionsOk ==
    /\ pc = "main"
    /\ \E resp \in SeqsUpTo(Events, MaxRunActions) : actions' = resp
    /\ log' = Append(log, <<"fetch">>)
    /\ pc' = "build"
    /\ UNCHANGED <<zone, now, start, end, SINCE, BEFORE, outcome, title, lines,
                   body, text, chunks, queue, sent, printed>>

\* A main that caught the exception of get_actions and went on with no
\* events.
GetActionsFailSwallowed ==
    /\ pc = "main"
    /\ actions' = <<>>
    /\ log' = Append(log, <<"fetch_failed">>)
    /\ pc' = "build"
    /\ UNCHANGED <<zone, now, start, end, SINCE, BEFORE, outcome, title, lines,
                   body, text, chunks, queue, sent, printed>>

\* Line 109, get_actions raises: raise_for_status on a failure status
\* (line 57) or r.json() on a body that is not JSON (line 58).  main does
\* not catch it.
GetActionsFail ==
    /\ pc = "main"
    /\ \E e \in {"HTTPError", "JSONDecodeError"} : outcome' = e
    /\ log' = Append(log, <<"fetch_failed">>)
    /\ pc' = "failed"
    /\ UNCHANGED <<zone, now, start, end, SINCE, BEFORE, actions, title, lines,
                   body, text, chunks, queue, sent, printed>>

\* Line 110.
BuildReport ==
    /\ pc = "build"
    /\ LET r == build_report(zone, start, end, actions)
       IN  /\ title' = r.title
           /\ lines' = r.lines
           /\ body' = r.body
           /\ IF r.outcome = "ok"
              THEN pc' = "send_title" /\ outcome' = outcome
              ELSE pc' = "failed" /\ outcome' = r.outcome
    /\ log' = Append(log, <<"build">>)
    /\ UNCHANGED <<zone, now, start, end, SINCE, BEFORE, actions, text, chunks,
                   queue, sent, printed>>

\* Line 111: f"<b>{title}</b>"
Bold(t) == <<"<", "b", ">">> \o t \o <<"<", "/", "b", ">">>

\* Line 111 up to the first post: tg_send_html wraps the title.
SendTitle ==
    /\ pc = "send_title"
    /\ text' = Bold(title)
    /\ chunks' = wrap(text', Width)
    /\ queue' = chunks'
    /\ pc' = "post_title"
    /\ UNCHANGED <<zone, now, start, end, SINCE, BEFORE, actions, outcome, title,
                   lines, body, sent, log, printed>>

\* A loop that posted the chunks from the last one.
PostOkFromEnd ==
    /\ pc \in {"post_title", "post_body"}
    /\ queue # <<>>
    /\ sent' = Append(sent, queue[Len(queue)])
    /\ log' = Append(log, <<"send", queue[Len(queue)]>>)
    /\ queue' = SubSeq(queue, 1, Len(queue) - 1)
    /\ UNCHANGED <<pc, zone, now, start, end, SINCE, BEFORE, actions, outcome,
                   title, lines, body, text, chunks, printed>>

\* Lines 100-105 with a success response: the chunk is delivered and the
\* loop goes on.
PostOk ==
    /\ pc \in {"post_title", "post_body"}
    /\ queue # <<>>
    /\ sent' = Append(sent, Head(queue))
    /\ log' = Append(log, <<"send", Head(queue)>>)
    /\ queue' = Tail(queue)
    /\ UNCHANGED <<pc, zone, now, start, end, SINCE, BEFORE, actions, outcome,
                   title, lines, body, text, chunks, printed>>

\* A loop that dropped a refused chunk and went on with the next.
PostFailSkips ==
    /\ pc \in {"post_title", "post_body"}
    /\ queue # <<>>
    /\ log' = Append(log, <<"refused", Head(queue)>>)
    /\ queue' = Tail(queue)
    /\ UNCHANGED <<pc, zone, now, start, end, SINCE, BEFORE, actions, outcome,
                   title, lines, body, text, chunks, sent, printed>>

\* Lines 100-105 with a non-success response: raise_for_status raises, and
\* neither tg_send_html nor main catches it.
PostFail ==
    /\ pc \in {"post_title", "post_body"}
    /\ queue # <<>>
    /\ outcome' = "HTTPError"
    /\ log' = Append(log, <<"refused", Head(queue)>>)
    /\ pc' = "failed"
    /\ UNCHANGED <<zone, now, start, end, SINCE, BEFORE, actions, title, lines,
                   body, text, chunks, queue, sent, printed>>

\* Line 112 up to the first post, once line 111 has returned.
SendBody ==
    /\ pc = "post_title"
    /\ queue = <<>>
    /\ text' = body
    /\ chunks' = wrap(body, Width)
    /\ queue' = chunks'
    /\ pc' = "post_body"
    /\ UNCHANGED <<zone, now, start, end, SINCE, BEFORE, actions, outcome, title,
                   lines, body, sent, log, printed>>

\* Line 113, once line 112 has returned.
PrintOk ==
    /\ pc = "post_body"
    /\ queue = <<>>
    /\ printed' = TRUE
    /\ outcome' = "ok"
    /\ pc' = "done"
    /\ UNCHANGED <<zone, now, start, end, SINCE, BEFORE, actions, title, lines,
                   body, text, chunks, queue, sent, log>>

\* Line 99 on its own.
Wrap ==
    /\ pc = "wrap"
    /\ chunks' = wrap(text, Width)
    /\ pc' = "wrapped"
    /\ UNCHANGED <<zone, now, start, end, SINCE, BEFORE, actions, outcome, title,
                   lines, body, text, queue, sent, log, printed>>

(***************************************************************************)
(* Specifications.                                                         *)
(***************************************************************************)
Moscow == CHOOSE z \in Zones : z.name = "Europe/Moscow"
NoTime == [wall |-> 0, off |-> 0]

\* What no step has written yet.
Untouched ==
    /\ actions = <<>> /\ outcome = "none"
    /\ title = <<>> /\ lines = <<>> /\ body = <<>>
    /\ text = <<>> /\ chunks = <<>> /\ queue = <<>>
    /\ sent = <<>> /\ log = <<>> /\ printed = FALSE

NoWindow == start = NoTime /\ end = NoTime /\ SINCE = 0 /\ BEFORE = 0

\* The run of the script: import, then main().
Init ==
    /\ pc = "import"
    /\ zone \in Zones
    /\ now = RunNow
    /\ NoWindow
    /\ Untouched

Next ==
    \/ ComputeWindow
    \/ GetActionsOk
    \/ GetActionsFail
    \/ BuildReport
    \/ SendTitle
    \/ PostOk
    \/ PostFail
    \/ SendBody
    \/ PrintOk

Spec == Init /\ [][Next]_vars

\* The window of every instant in every zone.
InitWindow ==
    /\ pc = "import"
    /\ zone \in Zones
    /\ now \in FirstNow..(FirstNow + MaxNow)
    /\ NoWindow
    /\ Untouched

NextWindow == ComputeWindow

SpecWindow == InitWindow /\ [][NextWindow]_vars

\* build_report on every event list, after the import.
InitReport ==
    /\ pc = "build"
    /\ zone = Moscow
    /\ now = RunNow
    /\ LET m == monday_this_week(NowIn(zone, now))
       IN  /\ start = MinusDays(m, DaysPerWeek)
           /\ end = m
           /\ SINCE = to_utc_iso(MinusDays(m, DaysPerWeek))
           /\ BEFORE = to_utc_iso(m)
    /\ actions \in SeqsUpTo(Events, MaxActions)
    /\ outcome = "none"
    /\ title = <<>> /\ lines = <<>> /\ body = <<>>
    /\ text = <<>> /\ chunks = <<>> /\ queue = <<>>
    /\ sent = <<>> /\ log = <<>> /\ printed = FALSE

NextReport == BuildReport

SpecReport == InitReport /\ [][NextReport]_vars

\* textwrap.wrap on every text.
InitWrap ==
    /\ pc = "wrap"
    /\ zone = Moscow
    /\ now = RunNow
    /\ NoWindow
    /\ text \in SeqsUpTo(Alphabet, MaxLen)
    /\ actions = <<>> /\ outcome = "none"
    /\ title = <<>> /\ lines = <<>> /\ body = <<>>
    /\ chunks = <<>> /\ queue = <<>>
    /\ sent = <<>> /\ log = <<>> /\ printed = FALSE

NextWrap == Wrap

SpecWrap == InitWrap /\ [][NextWrap]_vars

(***************************************************************************)
(* Vocabulary of the properties.                                           *)
(***************************************************************************)
IsPrefix(a, b) == Len(a) <= Len(b) /\ a = SubSeq(b, 1, Len(a))
Perms(n) == { f \in [1..n -> 1..n] : \A i, j \in 1..n : f[i] = f[j] => i = j }
Permuted(as, f) == [i \in 1..Len(as) |-> as[f[i]]]
Count(xs, x) == Cardinality({ i \in 1..Len(xs) : xs[i] = x })

\* build_report has run (in SpecReport and in Spec alike).
Built == \E i \in 1..Len(log) : log[i] = <<"build">>
Returned == Built /\ pc # "failed"

\* A field of an input entry read through records only: None when the path
\* does not exist.
Field(x, k) == IF IsDict(x) THEN Get(x, k, None) ELSE None
StateOf(a) == Field(Field(Field(a, "data"), "checkItem"), "state")
ItemOf(a) == Field(Field(Field(a, "data"), "checkItem"), "name")
CardIdOf(a) == Field(Field(Field(a, "data"), "card"), "id")
DateOf(a) == Field(a, "date")
IsCompleteRecord(a) == StateOf(a) = Complete
CompleteIndices(as) == { i \in 1..Len(as) : IsCompleteRecord(as[i]) }

\* An entry that is not a record, or whose data, checkItem or card is there
\* but is null or not a record.
IsMalformed(a) ==
    \/ ~IsDict(a)
    \/ "data" \in DOMAIN a.v /\ ~IsDict(a.v["data"])
    \/ /\ "data" \in DOMAIN a.v /\ IsDict(a.v["data"])
       /\ \/ "checkItem" \in DOMAIN a.v["data"].v /\ ~IsDict(a.v["data"].v["checkItem"])
          \/ /\ "card" \in DOMAIN a.v["data"].v
             /\ a.v["data"].v["card"].t = "str"
WithoutMalformed(as) == LET Keep(a) == ~IsMalformed(a) IN SelectSeq(as, Keep)

\* The lines of a rendered list that are headers, completion lines.
IsHeader(l) == l # <<>> /\ l[1] = "#"
IsItemLine(l) == l # <<>> /\ l[1] = EmSpace
HeaderIndices(ls) == { i \in 1..Len(ls) : IsHeader(ls[i]) }
ItemIndices(ls) == { i \in 1..Len(ls) : IsItemLine(ls[i]) }
\* The header under which line i stands.
BlockOf(ls, i) == CHOOSE h \in HeaderIndices(ls) :
                      h < i /\ \A g \in HeaderIndices(ls) : g < i => g <= h
\* The completion lines of the block that header h opens.
BlockItems(ls, h) ==
    LET idx == { i \in ItemIndices(ls) : BlockOf(ls, i) = h }
        F[k \in 0..Len(ls)] ==
            IF k = 0 THEN <<>>
            ELSE IF k \in idx THEN Append(F[k - 1], ls[k]) ELSE F[k - 1]
    IN  F[Len(ls)]

\* The (timestamp, item name) pairs of the complete records of card id c.
EntriesOf(as, c) ==
    LET OfCard(a) == IsCompleteRecord(a) /\ CardIdOf(a) = c
        sel == SelectSeq(as, OfCard)
    IN  [i \in 1..Len(sel) |-> <<DateOf(sel[i]), Or(ItemOf(sel[i]), Str(<<>>))>>]
CardIds(as) == { CardIdOf(as[i]) : i \in CompleteIndices(as) }

\* ys lists the same pairs as xs (as bags).
SameBag(xs, ys) ==
    /\ Len(xs) = Len(ys)
    /\ \A i \in 1..Len(xs) : Count(xs, xs[i]) = Count(ys, xs[i])

(***************************************************************************)
(* C1: the chunks of a text, concatenated in order, are the text, and no   *)
(* chunk is longer than the width.                                         *)
(***************************************************************************)
C1_ChunksReproduceText ==
    pc = "wrapped" =>
        /\ Concat(chunks) = text
        /\ \A i \in 1..Len(chunks) : Len(chunks[i]) <= Width

(***************************************************************************)
(* C2, as claimed: build_report gives the same (title, body) for every     *)
(* reordering of its input.                                                *)
(***************************************************************************)
SameForEveryOrder ==
    \A f \in Perms(Len(actions)) :
        LET r == build_report(zone, start, end, Permuted(actions, f))
        IN  /\ (r.outcome = "ok") = (pc # "failed")
            /\ r.outcome = "ok" => r.title = title /\ r.body = body

C2_PermutationInvariant_Claimed == Built => SameForEveryOrder

(***************************************************************************)
(* C2, amended: build_report gives the same result (the same title and     *)
(* body, or an exception either way) for every reordering of an input in   *)
(* which the complete records of one card all carry the same card name and *)
(* short link, two complete records of one card with the same sort key     *)
(* (timestamp, or "" when missing) have the same timestamp and item name,  *)
(* and no two cards have names that are equal in lower case.               *)
(***************************************************************************)
NameOf(a) == Field(Field(Field(a, "data"), "card"), "name")
ShortOf(a) == Field(Field(Field(a, "data"), "card"), "shortLink")
HasName(a) == IsDict(Field(Field(a, "data"), "card"))
                  /\ "name" \in DOMAIN Field(Field(a, "data"), "card").v
NameKey(a) == IF HasName(a) THEN Lower(Or(NameOf(a), Str(<<>>)).v) ELSE Lower(Untitled.v)
OrderFree(as) ==
    \A i, j \in CompleteIndices(as) :
        /\ CardIdOf(as[i]) = CardIdOf(as[j]) =>
              /\ HasName(as[i]) = HasName(as[j])
              /\ NameOf(as[i]) = NameOf(as[j])
              /\ ShortOf(as[i]) = ShortOf(as[j])
              /\ Or(DateOf(as[i]), Str(<<>>)) = Or(DateOf(as[j]), Str(<<>>)) =>
                    DateOf(as[i]) = DateOf(as[j]) /\ ItemOf(as[i]) = ItemOf(as[j])
        /\ CardIdOf(as[i]) # CardIdOf(as[j]) => NameKey(as[i]) # NameKey(as[j])

C2_PermutationInvariant == Built /\ OrderFree(actions) => SameForEveryOrder

\* Two completions of one card arrive latest first, with a third entry
\* around them, and the report is built.
C2_Witness ==
    /\ Returned
    /\ OrderFree(actions)
    /\ \E i, j \in CompleteIndices(actions) :
          /\ i < j
          /\ CardIdOf(actions[i]) = CardIdOf(actions[j])
          /\ DateOf(actions[i]) = T1 /\ DateOf(actions[j]) = T0
    /\ Cardinality(CardIds(actions)) = 2

(***************************************************************************)
(* C3: the window is seven days long, starts at 00:00 of a Monday of the   *)
(* configured zone and ends at 00:00 of the Monday of the week that holds  *)
(* `now` in that zone.  The instants are those the script sends to the     *)
(* board (SINCE, BEFORE); the zone's wall clock at an instant is WallAt.   *)
(***************************************************************************)
C3_WindowIsPreviousWeek ==
    pc = "main" =>
        /\ end.wall - start.wall = HoursPerWeek
        /\ WallAt(zone, SINCE) % HoursPerWeek = 0
        /\ WallAt(zone, BEFORE) = (WallAt(zone, now) \div HoursPerWeek) * HoursPerWeek

(***************************************************************************)
(* C4: when the board API call fails the run ends in failure, no message   *)
(* is sent (no post is even attempted) and OK is not printed.              *)
(***************************************************************************)
FetchFailed == \E i \in 1..Len(log) : log[i] = <<"fetch_failed">>
Posts == SelectSeq(log, LAMBDA e : e[1] \in {"send", "refused"})
Sends == SelectSeq(log, LAMBDA e : e[1] = "send")
ChunksOf(es) == [i \in 1..Len(es) |-> es[i][2]]

C4_FetchFailureSendsNothing ==
    FetchFailed =>
        /\ pc = "failed"
        /\ outcome \in {"HTTPError", "JSONDecodeError"}
        /\ Posts = <<>> /\ sent = <<>> /\ queue = <<>>
        /\ ~printed
        /\ ~ENABLED Next

\* The board answered with a body that is not JSON.
C4_Witness == FetchFailed /\ pc = "failed" /\ outcome = "JSONDecodeError"

(***************************************************************************)
(* C5: once a post gets a non-success response nothing more is posted: the *)
(* refused post is the last one, the chunks after it stay unsent, the body *)
(* is not sent when the title was refused, the run has failed without      *)
(* printing OK, and what was delivered before stays delivered.             *)
(***************************************************************************)
Refused == \E i \in 1..Len(log) : log[i][1] = "refused"

C5_NoSendAfterRefusal ==
    Refused =>
        /\ log[Len(log)][1] = "refused"
        /\ Cardinality({ i \in 1..Len(log) : log[i][1] = "refused" }) = 1
        /\ queue # <<>> /\ Head(queue) = log[Len(log)][2]
        /\ sent = ChunksOf(Sends)
        /\ sent \o queue = IF text = Bold(title) THEN wrap(Bold(title), Width)
                           ELSE wrap(Bold(title), Width) \o wrap(body, Width)
        /\ pc = "failed" /\ outcome = "HTTPError"
        /\ ~printed
        /\ ~ENABLED Next

\* The title went out in part, then a chunk of it was refused with more
\* than one chunk of the title still to go.
C5_Witness ==
    /\ Refused
    /\ text = Bold(title)
    /\ Len(sent) >= 1
    /\ Len(queue) >= 2

(***************************************************************************)
(* C6: the run fetches, then builds, then posts: the fetch is the first    *)
(* operation, the build the second and only after a fetch that returned,   *)
(* every post comes after the build, and the chunks posted are, in order,  *)
(* a prefix of the title's chunks followed by the body's.                  *)
(***************************************************************************)
C6_FixedOrder ==
    /\ \A i \in 1..Len(log) :
          /\ log[i][1] \in {"fetch", "fetch_failed"} => i = 1
          /\ log[i][1] = "build" => i = 2 /\ log[1] = <<"fetch">>
          /\ log[i][1] \in {"send", "refused"} =>
                i > 2 /\ log[2] = <<"build">> /\ title # <<>> /\ body # <<>>
    /\ IsPrefix(ChunksOf(Posts), wrap(Bold(title), Width) \o wrap(body, Width))
    /\ sent = ChunksOf(Sends)
    /\ printed => sent = wrap(Bold(title), Width) \o wrap(body, Width)

\* A run that delivered a title and a body of several chunks each.
C6_Witness ==
    /\ pc = "done" /\ printed
    /\ Len(wrap(Bold(title), Width)) >= 2
    /\ Len(wrap(body, Width)) >= 2
    /\ sent = wrap(Bold(title), Width) \o wrap(body, Width)
    /\ log[1] = <<"fetch">> /\ log[2] = <<"build">>

(***************************************************************************)
(* C7: build_report never fails on a malformed entry: it returns the       *)
(* report of the input without the malformed entries.                      *)
(***************************************************************************)
C7_MalformedEntriesAreSkipped ==
    Built =>
        LET r == build_report(zone, start, end, WithoutMalformed(actions))
        IN  /\ pc # "failed"
            /\ title = r.title
            /\ body = r.body

(***************************************************************************)
(* C8: every complete record yields exactly one completion line, in the    *)
(* block of its card, and no other record yields a line: there are as many *)
(* completion lines as complete records and as many header lines as        *)
(* distinct card identifiers among the complete records.                   *)
(***************************************************************************)
LinesMatchRecords(as, ls) ==
    /\ Cardinality(ItemIndices(ls)) = Cardinality(CompleteIndices(as))
    /\ Cardinality(HeaderIndices(ls)) = Cardinality(CardIds(as))
    /\ \E f \in [CardIds(as) -> HeaderIndices(ls)] :
          /\ \A c, d \in CardIds(as) : f[c] = f[d] => c = d
          /\ \A c \in CardIds(as) :
                SameBag(BlockItems(ls, f[c]), ItemLines(zone, EntriesOf(as, c)))

C8_OneLinePerCompleteRecord == Built => LinesMatchRecords(actions, lines)

(***************************************************************************)
(* C9: within every card block the completion lines are in ascending order *)
(* of timestamp, those without a timestamp (missing or empty) first.       *)
(***************************************************************************)
AscendingMissingFirst(ys) ==
    \A i, j \in 1..Len(ys) :
        i < j =>
            /\ ~StrLess(Or(ys[j][1], Str(<<>>)).v, Or(ys[i][1], Str(<<>>)).v)
            /\ ~Truthy(ys[j][1]) => ~Truthy(ys[i][1])

\* The block that header h opens lists the completions of some card in an
\* ascending order.
BlockAscending(as, ls, h) ==
    \E c \in CardIds(as) :
        \E f \in Perms(Len(EntriesOf(as, c))) :
            LET ys == Permuted(EntriesOf(as, c), f)
            IN  /\ ItemLines(zone, ys) = BlockItems(ls, h)
                /\ AscendingMissingFirst(ys)

C9_BlocksAscending ==
    Returned => \A h \in HeaderIndices(lines) : BlockAscending(actions, lines, h)

\* The completion at 22:00 named x arrives before the one at 09:00 named y
\* and one without a timestamp; the block lists them in the other order.
C9_Witness ==
    /\ Returned
    /\ actions = <<Event(Complete, Card1a, T1, ItemX), Event(Complete, Card1a, T0, ItemY),
                   EventNoDate(Complete, Card1a, ItemX)>>
    /\ lines = <<HeaderLine(Str(<<"a">>), UrlPrefix \o <<"s">>),
                 ItemLine(zone, None, ItemX),
                 ItemLine(zone, T0, ItemY),
                 ItemLine(zone, T1, ItemX),
                 <<>> >>

(***************************************************************************)
(* C10: without a complete record in the input the body is the             *)
(* nothing-found sentence and the title shows the window's start date and  *)
(* its end date minus one day; with one, the body is not that sentence and *)
(* has a card header line.                                                 *)
(***************************************************************************)
C10_EmptyReport ==
    Built =>
        IF CompleteIndices(actions) = {}
        THEN /\ pc # "failed"
             /\ body = NothingFound
             /\ title = TitlePrefix \o TwoDigits(start.wall \div HoursPerDay)
                            \o <<" ", "~", " ">>
                            \o TwoDigits((end.wall - HoursPerDay) \div HoursPerDay)
        ELSE /\ pc # "failed"
             /\ body # NothingFound
             /\ HeaderIndices(lines) # {}
             /\ IsPrefix(<<"#">>, body)

====
